---- MODULE Spec2Model ----
(***************************************************************************)
(* Model of ezcmd's EasyCommand (src/src/lib.rs): the three constructors,  *)
(* the three execution methods and the layered error values.               *)
(*                                                                         *)
(* Text is modelled as a sequence of one-character strings so that the     *)
(* lossy conversion, the shell quoting and the Display implementations are *)
(* computed character by character.                                        *)
(***************************************************************************)
EXTENDS Integers, Sequences, FiniteSets, TLC

VARIABLES
    cmd,            \* EasyCommand.inner: the std Command (program, args, dir)
    ctor,           \* which constructor built cmd, and with what inputs
    mode,           \* the execution method in progress or last run
    pc,             \* the stage of the current execution call
    child,          \* the Child handle owned by the call, or NoChild
    implRes,        \* the Result produced so far by the *_impl function
    result,         \* the Result handed back to the caller, or NoResult
    callInv,        \* the shell-quoted invocation when the method was entered
    spawnAttempts,  \* spawn() calls made by the current execution call
    waitAttempts,   \* wait() / output collection calls made by the current call
    procs,          \* processes started from this builder so far
    calls,          \* execution calls made on this builder so far
    os              \* what the OS did during the current call (history)

vars == <<cmd, ctor, mode, pc, child, implRes, result, callInv,
          spawnAttempts, waitAttempts, procs, calls, os>>

----------------------------------------------------------------------------
(* Bounds *)

\* longest argument list / customization a constructor is given
MaxArgs == 2
\* execution calls made on one builder
MaxCalls == 2

----------------------------------------------------------------------------
(* Text *)

\* an OsStr unit that is not valid UTF-8
BadByte == "<bad-byte>"
\* U+FFFD, what to_string_lossy puts in place of invalid UTF-8
Replacement == "<U+FFFD>"

\* OsStr tokens used as arguments
Tokens ==
    { <<"a">>,
      <<>>,
      <<"a", " ", "'", "b", "'">>,
      <<"x", BadByte>> }

\* OsStr tokens used as program names
Programs == { <<"l", "s">>, <<"n", "o", " ", "p", "r", "o", "g">> }

\* working directories a customization may set
Dirs == { <<"/", "t", "m", "p">> }
NoDir == <<"<", "i", "n", "h", "e", "r", "i", "t", ">">>

\* OsStr::to_string_lossy
to_string_lossy(s) ==
    [i \in 1..Len(s) |-> IF s[i] = BadByte THEN Replacement ELSE s[i]]

\* the characters shell_words::quote leaves unquoted
SafeChars == {"a", "b", "g", "l", "n", "o", "p", "r", "s", "x", "/"}

RECURSIVE QuoteFrom(_, _, _)
\* shell_words::quote's loop: ' and ! are backslash-escaped outside single
\* quotes, every other character goes inside single quotes
QuoteFrom(s, i, quoted) ==
    IF i > Len(s)
    THEN IF quoted THEN <<"'">> ELSE <<>>
    ELSE IF s[i] \in {"'", "!"}
         THEN (IF quoted THEN <<"'">> ELSE <<>>) \o <<"\\", s[i]>>
                  \o QuoteFrom(s, i + 1, FALSE)
         ELSE (IF quoted THEN <<>> ELSE <<"'">>) \o <<s[i]>>
                  \o QuoteFrom(s, i + 1, TRUE)

\* shell_words::quote
quote(s) ==
    IF s = <<>> THEN <<"'", "'">>
    ELSE IF \A i \in 1..Len(s) : s[i] \in SafeChars THEN s
    ELSE QuoteFrom(s, 1, FALSE)

RECURSIVE join(_)
\* shell_words::join: the quoted words separated by single spaces
join(words) ==
    IF words = <<>> THEN <<>>
    ELSE IF Len(words) = 1 THEN quote(words[1])
    ELSE quote(words[1]) \o <<" ">> \o join(Tail(words))

\* once(prog).chain(args) after to_string_lossy, then shell_words::join
ShellWords(c) ==
    join(<<to_string_lossy(c.prog)>>
            \o [i \in 1..Len(c.args) |-> to_string_lossy(c.args[i])])

\* the grave accent character (U+0060)
Backtick == "<grave>"

\* impl Display for EasyCommand
DisplayEasyCommand(c) == <<Backtick>> \o ShellWords(c) \o <<Backtick>>

\* a snapshot that keeps the program and loses the arguments
EasyCommandInvocation_program_only(c) ==
    [shell_words |-> join(<<to_string_lossy(c.prog)>>)]

\* EasyCommandInvocation::new
EasyCommandInvocation_new(c) == [shell_words |-> ShellWords(c)]

\* impl Display for EasyCommandInvocation
DisplayInvocation(inv) == inv.shell_words

FailedToExecute ==
    <<"f", "a", "i", "l", "e", "d", " ", "t", "o", " ",
      "e", "x", "e", "c", "u", "t", "e", " ">>

\* #[error("failed to execute {cmd}")] on ExecuteError
DisplayExecuteError(e) == FailedToExecute \o DisplayInvocation(e.cmd)

----------------------------------------------------------------------------
(* Values *)

Some(x) == <<x>>
None == <<>>

Ok(v) == [tag |-> "Ok", value |-> v]
Err(e) == [tag |-> "Err", err |-> e]
NoResult == [tag |-> "None"]
Unit == [unit |-> TRUE]

\* OS error conditions an io::Error may carry
OsErrors == {"NotFound", "PermissionDenied"}
IoError(e) == [kind |-> "io", os |-> e]

\* exit codes a process may end with; None when a signal ended it
ExitCodes == {0, 3, 7}
ExitStatuses == {[code |-> Some(c)] : c \in ExitCodes} \cup {[code |-> None]}

\* ExitStatus::code
code(status) == status.code
\* ExitStatus::success
success(status) == status.code = Some(0)

\* what a process may have written to a captured stream
Buffers == { <<>>, <<"h", "e", "l", "l", "o">> }
Outputs == [status : ExitStatuses, stdout : Buffers, stderr : Buffers]

NoChild == [pid |-> 0, argv |-> <<>>, piped |-> FALSE]

\* nothing has been asked of the OS yet
NoOs == [spawn |-> "none", wait |-> "none", error |-> None, exit |-> None,
         argv |-> <<>>]

----------------------------------------------------------------------------
(* Constructors *)

\* Command::new
Command_new(p) == [prog |-> p, args |-> <<>>, dir |-> NoDir]

\* one builder method call made by a customization closure
ArgCalls == {[op |-> "arg", v |-> t] : t \in Tokens}
DirCalls == {[op |-> "current_dir", v |-> d] : d \in Dirs}

\* Command::arg, Command::args, Command::current_dir
ApplyCall(c, call) ==
    CASE call.op = "arg" -> [c EXCEPT !.args = Append(@, call.v)]
      [] call.op = "args" -> [c EXCEPT !.args = @ \o call.v]
      [] call.op = "current_dir" -> [c EXCEPT !.dir = call.v]

RECURSIVE Customize(_, _)
\* f(&mut cmd): the closure's calls applied in order
Customize(c, f) ==
    IF f = <<>> THEN c ELSE Customize(ApplyCall(c, Head(f)), Tail(f))

\* the closure |cmd| cmd
Identity == <<>>

\* EasyCommand::new_with
new_with(p, f) == Customize(Command_new(p), f)

\* EasyCommand::new
new(p) == new_with(p, Identity)

\* simple handing the arguments over in reverse order
simple_reversed(p, args) ==
    new_with(p, <<[op |-> "args",
                   v |-> [i \in 1..Len(args) |-> args[Len(args) + 1 - i]]]>>)

\* EasyCommand::simple
simple(p, args) == new_with(p, <<[op |-> "args", v |-> args]>>)

SeqsUpTo(S, n) == UNION {[1..k -> S] : k \in 0..n}

\* the closures handed to new_with
Customizations == SeqsUpTo(ArgCalls \cup DirCalls, MaxArgs)
\* the argument lists handed to simple
ArgLists == SeqsUpTo(Tokens, MaxArgs)

----------------------------------------------------------------------------
(* Error wrapping *)

\* ExecuteError::new
ExecuteError_new(c, source) ==
    [cmd |-> EasyCommandInvocation_new(c), source |-> source]

\* .map_err(|source| ExecuteError::new(self, source))
map_err_ExecuteError(c, r) ==
    IF r.tag = "Err" THEN Err(ExecuteError_new(c, r.err)) ELSE r

\* EasyCommand::spawn_and_wait, given spawn_and_wait_impl's result
spawn_and_wait(c, r) == map_err_ExecuteError(c, r)

\* run_impl judging by the exit code alone, so that a missing code passes
run_impl_code_only(r) ==
    IF r.tag = "Err"
    THEN Err([kind |-> "SpawnAndWait", inner |-> r.err])
    ELSE IF code(r.value) \in {None, Some(0)}
         THEN Ok(Unit)
         ELSE Err([kind |-> "UnsuccessfulExitCode", code |-> code(r.value)])

\* run_impl reporting a spawn-and-wait failure as an unsuccessful exit
run_impl_flattened(r) ==
    IF r.tag = "Err"
    THEN Err([kind |-> "UnsuccessfulExitCode", code |-> None])
    ELSE IF success(r.value)
         THEN Ok(Unit)
         ELSE Err([kind |-> "UnsuccessfulExitCode", code |-> code(r.value)])

\* EasyCommand::run_impl, given spawn_and_wait_impl's result
run_impl(r) ==
    IF r.tag = "Err"
    THEN Err([kind |-> "SpawnAndWait", inner |-> r.err])
    ELSE IF success(r.value)
         THEN Ok(Unit)
         ELSE Err([kind |-> "UnsuccessfulExitCode", code |-> code(r.value)])

\* run built on the public spawn_and_wait instead of spawn_and_wait_impl
run_rewrapped(c, r) == map_err_ExecuteError(c, run_impl(spawn_and_wait(c, r)))

\* EasyCommand::run, given spawn_and_wait_impl's result
run(c, r) == map_err_ExecuteError(c, run_impl(r))

\* output turning a non-success exit status into an error
output_judging(c, r) ==
    IF r.tag = "Ok" /\ ~success(r.value.status)
    THEN Err(ExecuteError_new(c, IoError("Other")))
    ELSE map_err_ExecuteError(c, r)

\* EasyCommand::output, given output_impl's result
output(c, r) == map_err_ExecuteError(c, r)

\* enum SpawnAndWaitErrorKind
SpawnAndWaitErrorKind ==
    {[kind |-> k, source |-> IoError(e)] :
        k \in {"Spawn", "WaitForExitCode"}, e \in OsErrors}

\* enum RunErrorKind
RunErrorKind ==
    {[kind |-> "SpawnAndWait", inner |-> x] : x \in SpawnAndWaitErrorKind}
    \cup {[kind |-> "UnsuccessfulExitCode", code |-> c] :
              c \in {Some(n) : n \in ExitCodes} \cup {None}}

\* io::Error, the inner error of output
IoErrors == {IoError(e) : e \in OsErrors}

\* the E of ExecuteError<E> each method returns
InnerErrors(m) ==
    CASE m = "spawn_and_wait" -> SpawnAndWaitErrorKind
      [] m = "run" -> RunErrorKind
      [] m = "output" -> IoErrors

Modes == {"spawn_and_wait", "run", "output"}

\* what the public method in progress hands back
MethodResult(m, c, r) ==
    CASE m = "spawn_and_wait" -> spawn_and_wait(c, r)
      [] m = "run" -> run(c, r)
      [] m = "output" -> output(c, r)

\* the stage a call ends in once the method has judged the impl's result
FinalStage(m, stage, r) ==
    IF m = "run" /\ stage = "Exited"
    THEN IF run_impl(r).tag = "Ok" THEN "Success" ELSE "UnsuccessfulExit"
    ELSE stage

----------------------------------------------------------------------------
(* State machine *)

Fresh(c, k) ==
    /\ cmd' = c
    /\ ctor' = k
    /\ mode' = "none"
    /\ pc' = "Idle"
    /\ child' = NoChild
    /\ implRes' = NoResult
    /\ result' = NoResult
    /\ callInv' = <<>>
    /\ spawnAttempts' = 0
    /\ waitAttempts' = 0
    /\ procs' = 0
    /\ calls' = 0
    /\ os' = NoOs

\* no execution method is running: the caller holds the builder
AtRest == pc = "Idle" \/ result.tag # "None"

Init ==
    \E p \in Programs :
        /\ cmd = new(p)
        /\ ctor = [name |-> "new", prog |-> p, args |-> <<>>, f |-> <<>>]
        /\ mode = "none"
        /\ pc = "Idle"
        /\ child = NoChild
        /\ implRes = NoResult
        /\ result = NoResult
        /\ callInv = <<>>
        /\ spawnAttempts = 0
        /\ waitAttempts = 0
        /\ procs = 0
        /\ calls = 0
        /\ os = NoOs

\* The builder has not been executed yet.  A constructor replaces the builder
\* only then: it resets every variable, so replacing a used builder reaches
\* no state that replacing an unused one does not.
Unused == pc = "Idle"

\* the caller builds a builder with EasyCommand::new
New(p) ==
    /\ Unused
    /\ Fresh(new(p), [name |-> "new", prog |-> p, args |-> <<>>, f |-> <<>>])

\* the caller builds a builder with EasyCommand::new_with
NewWith(p, f) ==
    /\ Unused
    /\ Fresh(new_with(p, f),
             [name |-> "new_with", prog |-> p, args |-> <<>>, f |-> f])

\* the caller builds a builder with EasyCommand::simple
Simple(p, args) ==
    /\ Unused
    /\ Fresh(simple(p, args),
             [name |-> "simple", prog |-> p, args |-> args, f |-> <<>>])

\* the caller enters spawn_and_wait, run or output
Call(m) ==
    /\ AtRest
    /\ calls < MaxCalls
    /\ mode' = m
    /\ pc' = "Unstarted"
    /\ implRes' = NoResult
    /\ result' = NoResult
    /\ callInv' = ShellWords(cmd)
    /\ spawnAttempts' = 0
    /\ waitAttempts' = 0
    /\ calls' = calls + 1
    /\ os' = NoOs
    /\ UNCHANGED <<cmd, ctor, child, procs>>

\* self.inner.spawn() / the spawn inside self.inner.output() is entered
SpawnBegin ==
    /\ pc = "Unstarted"
    /\ pc' = "Spawning"
    /\ spawnAttempts' = spawnAttempts + 1
    /\ UNCHANGED <<cmd, ctor, mode, child, implRes, result, callInv,
                   waitAttempts, procs, calls, os>>

\* the OS started the process: the call now owns a Child
SpawnOk ==
    /\ pc = "Spawning"
    /\ pc' = "Spawned"
    /\ procs' = procs + 1
    /\ child' = [pid |-> procs + 1,
                 argv |-> <<cmd.prog>> \o cmd.args,
                 piped |-> (mode = "output")]
    /\ os' = [os EXCEPT !.spawn = "ok", !.argv = <<cmd.prog>> \o cmd.args]
    /\ UNCHANGED <<cmd, ctor, mode, implRes, result, callInv,
                   spawnAttempts, waitAttempts, calls>>

\* a refused spawn that sends the call back to try again
SpawnErr_retry(e) ==
    /\ pc = "Spawning"
    /\ pc' = "Unstarted"
    /\ os' = [os EXCEPT !.spawn = "err", !.error = Some(e)]
    /\ UNCHANGED <<cmd, ctor, mode, child, implRes, result, callInv,
                   spawnAttempts, waitAttempts, procs, calls>>

\* the OS refused to start the process
SpawnErr(e) ==
    /\ pc = "Spawning"
    /\ pc' = "SpawnFailed"
    /\ implRes' = IF mode = "output"
                  THEN Err(IoError(e))
                  ELSE Err([kind |-> "Spawn", source |-> IoError(e)])
    /\ os' = [os EXCEPT !.spawn = "err", !.error = Some(e)]
    /\ UNCHANGED <<cmd, ctor, mode, child, result, callInv,
                   spawnAttempts, waitAttempts, procs, calls>>

\* child.wait() / the collection inside self.inner.output() is entered
WaitBegin ==
    /\ pc = "Spawned"
    /\ pc' = IF mode = "output" THEN "Collecting" ELSE "Waiting"
    /\ waitAttempts' = waitAttempts + 1
    /\ UNCHANGED <<cmd, ctor, mode, child, implRes, result, callInv,
                   spawnAttempts, procs, calls, os>>

\* child.wait() returned a status; the closure ends and drops the Child
WaitOk(status) ==
    /\ pc = "Waiting"
    /\ pc' = "Exited"
    /\ implRes' = Ok(status)
    /\ child' = NoChild
    /\ os' = [os EXCEPT !.wait = "ok", !.exit = Some(status)]
    /\ UNCHANGED <<cmd, ctor, mode, result, callInv,
                   spawnAttempts, waitAttempts, procs, calls>>

\* a failed wait reported under the Spawn kind
WaitErr_as_spawn(e) ==
    /\ pc = "Waiting"
    /\ pc' = "WaitFailed"
    /\ implRes' = Err([kind |-> "Spawn", source |-> IoError(e)])
    /\ child' = NoChild
    /\ os' = [os EXCEPT !.wait = "err", !.error = Some(e)]
    /\ UNCHANGED <<cmd, ctor, mode, result, callInv,
                   spawnAttempts, waitAttempts, procs, calls>>

\* a failed wait that keeps the Child alive past the call
WaitErr_leak(e) ==
    /\ pc = "Waiting"
    /\ pc' = "WaitFailed"
    /\ implRes' = Err([kind |-> "WaitForExitCode", source |-> IoError(e)])
    /\ os' = [os EXCEPT !.wait = "err", !.error = Some(e)]
    /\ UNCHANGED <<cmd, ctor, mode, child, result, callInv,
                   spawnAttempts, waitAttempts, procs, calls>>

\* child.wait() failed; the ? leaves the closure and drops the Child
WaitErr(e) ==
    /\ pc = "Waiting"
    /\ pc' = "WaitFailed"
    /\ implRes' = Err([kind |-> "WaitForExitCode", source |-> IoError(e)])
    /\ child' = NoChild
    /\ os' = [os EXCEPT !.wait = "err", !.error = Some(e)]
    /\ UNCHANGED <<cmd, ctor, mode, result, callInv,
                   spawnAttempts, waitAttempts, procs, calls>>

\* self.inner.output() collected the streams and the status
CollectOk(out) ==
    /\ pc = "Collecting"
    /\ pc' = "Exited"
    /\ implRes' = Ok(out)
    /\ child' = NoChild
    /\ os' = [os EXCEPT !.wait = "ok", !.exit = Some(out)]
    /\ UNCHANGED <<cmd, ctor, mode, result, callInv,
                   spawnAttempts, waitAttempts, procs, calls>>

\* self.inner.output() failed after the process had started
CollectErr(e) ==
    /\ pc = "Collecting"
    /\ pc' = "WaitFailed"
    /\ implRes' = Err(IoError(e))
    /\ child' = NoChild
    /\ os' = [os EXCEPT !.wait = "err", !.error = Some(e)]
    /\ UNCHANGED <<cmd, ctor, mode, result, callInv,
                   spawnAttempts, waitAttempts, procs, calls>>

\* the public method judges the impl's result, wraps an error and returns
Return ==
    /\ pc \in {"SpawnFailed", "WaitFailed", "Exited"}
    /\ result.tag = "None"
    /\ result' = MethodResult(mode, cmd, implRes)
    /\ pc' = FinalStage(mode, pc, implRes)
    /\ UNCHANGED <<cmd, ctor, mode, child, implRes, callInv,
                   spawnAttempts, waitAttempts, procs, calls, os>>

Next ==
    \/ \E p \in Programs : New(p)
    \/ \E p \in Programs, f \in Customizations : NewWith(p, f)
    \/ \E p \in Programs, args \in ArgLists : Simple(p, args)
    \/ \E m \in Modes : Call(m)
    \/ SpawnBegin
    \/ SpawnOk
    \/ \E e \in OsErrors : SpawnErr(e)
    \/ WaitBegin
    \/ \E s \in ExitStatuses : WaitOk(s)
    \/ \E e \in OsErrors : WaitErr(e)
    \/ \E o \in Outputs : CollectOk(o)
    \/ \E e \in OsErrors : CollectErr(e)
    \/ Return

Spec == Init /\ [][Next]_vars

----------------------------------------------------------------------------
(* Properties *)

\* the execution method has handed its Result back
Returned == result.tag # "None"

\* the returned error's inner error is of kind k
IsKind(k) ==
    /\ result.tag = "Err"
    /\ "kind" \in DOMAIN result.err.source
    /\ result.err.source.kind = k

\* the call met a failure: of the OS, or for run an unsuccessful exit
Failed ==
    \/ os.spawn = "err"
    \/ os.wait = "err"
    \/ mode = "run" /\ os.wait = "ok" /\ ~success(os.exit[1])

RECURSIVE Wrappers(_)
\* how many ExecuteError wrappers an error value holds, at any depth
Wrappers(e) ==
    IF "cmd" \in DOMAIN e THEN 1 + Wrappers(e.source)
    ELSE IF "inner" \in DOMAIN e THEN Wrappers(e.inner)
    ELSE IF "source" \in DOMAIN e THEN Wrappers(e.source)
    ELSE 0

\* C1: every error returned by spawn_and_wait, run or output displays as
\* "failed to execute " followed by the shell-quoted command line enclosed
\* in backticks.
C1_ErrorDisplayIsBackticked ==
    result.tag = "Err" =>
        DisplayExecuteError(result.err)
            = FailedToExecute \o <<Backtick>> \o ShellWords(cmd) \o <<Backtick>>

\* C2: every failure of the three methods is returned as exactly one outer
\* wrapper pairing the invocation snapshot with the method's own inner error
\* kind; a failure never comes back unwrapped or wrapped twice.
C2_WrappedExactlyOnce ==
    Returned =>
        /\ Failed <=> result.tag = "Err"
        /\ result.tag = "Err" =>
              /\ DOMAIN result.err = {"cmd", "source"}
              /\ Wrappers(result.err) = 1
              /\ result.err.cmd = [shell_words |-> callInv]
              /\ result.err.source \in InnerErrors(mode)

C2_Witness ==
    /\ mode = "run"
    /\ IsKind("SpawnAndWait")
    /\ result.err.source.inner.kind = "WaitForExitCode"

\* C3: when run's process was spawned and waited for without OS error, run
\* returns Ok(()) exactly when the status is a success, and otherwise
\* UnsuccessfulExitCode carrying the observed code (None for a signal);
\* code 0 gives Ok(()), code 7 gives UnsuccessfulExitCode { code: Some(7) }.
C3_RunJudgesExitStatus ==
    (mode = "run" /\ Returned /\ os.spawn = "ok" /\ os.wait = "ok") =>
        LET status == os.exit[1] IN
        /\ result = Ok(Unit) <=> success(status)
        /\ ~success(status) =>
              /\ result.tag = "Err"
              /\ result.err.source =
                    [kind |-> "UnsuccessfulExitCode", code |-> status.code]
        /\ status.code = Some(0) => result = Ok(Unit)
        /\ status.code = Some(7) =>
              /\ IsKind("UnsuccessfulExitCode")
              /\ result.err.source.code = Some(7)

C3_Witness ==
    /\ mode = "run"
    /\ Returned
    /\ os.exit = Some([code |-> None])
    /\ IsKind("UnsuccessfulExitCode")
    /\ result.err.source.code = None

\* C4: spawn_and_wait fails with Spawn (carrying the OS error) exactly when
\* the spawn failed, with WaitForExitCode (carrying the OS error) exactly
\* when the wait failed, and otherwise returns the raw exit status as Ok,
\* whatever that status is.
C4_SpawnAndWaitOutcome ==
    (mode = "spawn_and_wait" /\ Returned) =>
        /\ IsKind("Spawn") <=> os.spawn = "err"
        /\ IsKind("WaitForExitCode") <=> (os.spawn = "ok" /\ os.wait = "err")
        /\ result.tag = "Err" =>
              result.err.source.source = IoError(os.error[1])
        /\ os.wait = "ok" => result = Ok(os.exit[1])

C4_Witness ==
    /\ mode = "spawn_and_wait"
    /\ os.wait = "ok"
    /\ result = Ok([code |-> Some(3)])

\* C5: run hands a failure of its spawn-and-wait stage on unchanged: a failed
\* spawn as SpawnAndWait(Spawn) and a failed wait as
\* SpawnAndWait(WaitForExitCode), each with the same OS error, never as
\* UnsuccessfulExitCode, as success or as another kind.
C5_RunPropagatesStageFailure ==
    (mode = "run" /\ Returned) =>
        /\ os.spawn = "err" =>
              /\ result.tag = "Err"
              /\ result.err.source =
                    [kind |-> "SpawnAndWait",
                     inner |-> [kind |-> "Spawn",
                                source |-> IoError(os.error[1])]]
        /\ os.wait = "err" =>
              /\ result.tag = "Err"
              /\ result.err.source =
                    [kind |-> "SpawnAndWait",
                     inner |-> [kind |-> "WaitForExitCode",
                                source |-> IoError(os.error[1])]]

C5_Witness ==
    /\ mode = "run"
    /\ os.spawn = "err"
    /\ IsKind("SpawnAndWait")
    /\ result.err.source.inner.kind = "Spawn"

\* C6: output returns the exit status with both captured buffers whenever
\* the process was started and its output collected, whatever the status;
\* it fails only when starting or collecting failed, and then the inner
\* error is the bare io::Error with no Spawn / WaitForExitCode kind.
C6_OutputOutcome ==
    (mode = "output" /\ Returned) =>
        /\ os.wait = "ok" =>
              /\ result = Ok(os.exit[1])
              /\ DOMAIN result.value = {"status", "stdout", "stderr"}
        /\ result.tag = "Err" <=> (os.spawn = "err" \/ os.wait = "err")
        /\ result.tag = "Err" =>
              /\ result.err.source = IoError(os.error[1])
              /\ ~IsKind("Spawn")
              /\ ~IsKind("WaitForExitCode")

C6_Witness ==
    /\ mode = "output"
    /\ result.tag = "Ok"
    /\ result.value.status.code = Some(3)
    /\ result.value.stdout = <<"h", "e", "l", "l", "o">>

\* C7: for a program p, new(p), new_with(p, identity) and simple(p, no
\* arguments) render the same invocation; and simple(p, args) is the builder
\* new_with(p, closure appending args one by one in order) makes: program p
\* followed by args in the given order.
C7_ConstructorsAgree ==
    LET p == ctor.prog
        empty == \/ ctor.name = "new"
                 \/ ctor.name = "new_with" /\ ctor.f = Identity
                 \/ ctor.name = "simple" /\ ctor.args = <<>>
    IN  /\ empty =>
              /\ DisplayEasyCommand(cmd) = DisplayEasyCommand(new(p))
              /\ DisplayEasyCommand(cmd)
                    = DisplayEasyCommand(new_with(p, Identity))
              /\ DisplayEasyCommand(cmd) = DisplayEasyCommand(simple(p, <<>>))
        /\ ctor.name = "simple" =>
              /\ cmd.prog = p
              /\ cmd.args = ctor.args
              /\ cmd = new_with(p, [i \in 1..Len(ctor.args) |->
                                       [op |-> "arg", v |-> ctor.args[i]]])

C7_Witness ==
    /\ ctor.name = "simple"
    /\ Len(ctor.args) = 2
    /\ ctor.args[1] # ctor.args[2]
    /\ cmd.args = ctor.args

\* the stage changes one execution call may make, and the start of a new call
StageSteps ==
    { <<"Idle", "Unstarted">>,
      <<"Unstarted", "Spawning">>,
      <<"Spawning", "SpawnFailed">>, <<"Spawning", "Spawned">>,
      <<"Spawned", "Waiting">>, <<"Spawned", "Collecting">>,
      <<"Waiting", "WaitFailed">>, <<"Waiting", "Exited">>,
      <<"Collecting", "WaitFailed">>, <<"Collecting", "Exited">>,
      <<"Exited", "Success">>, <<"Exited", "UnsuccessfulExit">> }
    \cup { <<t, "Unstarted">> :
             t \in {"SpawnFailed", "WaitFailed", "Exited",
                    "Success", "UnsuccessfulExit"} }

\* C8: a call goes Unstarted -> Spawning -> SpawnFailed | Spawned ->
\* Waiting/Collecting -> WaitFailed | Exited; it spawns exactly once, waits
\* at most once and only after a successful spawn, SpawnFailed and WaitFailed
\* are left only by a later call, and run classifies Exited into exactly one
\* of Success and UnsuccessfulExit.
C8_StagePath ==
    /\ [][ /\ pc' # pc => <<pc, pc'>> \in StageSteps
           /\ (pc' # pc /\ pc' = "Unstarted" /\ pc # "Idle") => Returned
           /\ spawnAttempts' # spawnAttempts =>
                 \/ pc = "Unstarted" /\ pc' = "Spawning"
                       /\ spawnAttempts = 0 /\ spawnAttempts' = 1
                 \/ pc' \in {"Idle", "Unstarted"} /\ spawnAttempts' = 0
           /\ waitAttempts' # waitAttempts =>
                 \/ pc = "Spawned" /\ os.spawn = "ok"
                       /\ waitAttempts = 0 /\ waitAttempts' = 1
                 \/ pc' \in {"Idle", "Unstarted"} /\ waitAttempts' = 0
           /\ (pc = "Exited" /\ pc' \in {"Success", "UnsuccessfulExit"}) =>
                 /\ mode = "run"
                 /\ pc' = "Success" <=> success(os.exit[1])
         ]_vars
    /\ [](Returned =>
            /\ spawnAttempts = 1
            /\ waitAttempts = (IF os.spawn = "ok" THEN 1 ELSE 0)
            /\ (mode = "run" /\ os.wait = "ok") =>
                  pc \in {"Success", "UnsuccessfulExit"})

C8_Witness ==
    /\ mode = "run"
    /\ pc = "UnsuccessfulExit"
    /\ calls = 2
    /\ spawnAttempts = 1
    /\ waitAttempts = 1

\* C9: whenever an execution method has returned, by success or by error,
\* and also when the wait itself failed, the call holds no Child handle and
\* no pipes.
C9_ChildReleased ==
    /\ AtRest => child = NoChild
    /\ pc \in {"SpawnFailed", "WaitFailed", "Exited",
               "Success", "UnsuccessfulExit"} => child = NoChild

C9_Witness ==
    /\ pc = "WaitFailed"
    /\ Returned
    /\ procs >= 1
    /\ os.spawn = "ok"
    /\ child = NoChild

\* the text shell_words::join gives for spawned argv
ArgvShellWords(argv) ==
    join([i \in 1..Len(argv) |-> to_string_lossy(argv[i])])

\* C10: the snapshot in an error is the builder's shell-quoted command line
\* as it was when the method was entered; executing never changes the
\* builder's program or arguments, so the snapshot names what was spawned,
\* and a further call on the builder starts a new process with the same
\* invocation.
C10_SnapshotIsInvocation ==
    /\ [](result.tag = "Err" => result.err.cmd.shell_words = callInv)
    /\ [](calls >= 1 => callInv = ShellWords(cmd))
    /\ [](os.spawn = "ok" =>
            /\ os.argv = <<cmd.prog>> \o cmd.args
            /\ ArgvShellWords(os.argv) = callInv)
    /\ [][ /\ pc' # "Idle" => cmd' = cmd
           /\ (os'.spawn = "ok" /\ os.spawn # "ok") =>
                 /\ child'.pid = procs + 1
                 /\ procs' = procs + 1
         ]_vars

C10_Witness ==
    /\ calls = 2
    /\ procs = 2
    /\ result.tag = "Err"
    /\ Len(cmd.args) = 2
    /\ result.err.cmd.shell_words = ShellWords(cmd)

====
